---- MODULE Spec2Model ----
(***************************************************************************)
(* JettOX diagnostics collector (src/main.py).                             *)
(*                                                                         *)
(* Text is modelled as a sequence of tokens.  A token stands for one       *)
(* character or for one atomic word; LF is the line terminator, SP a       *)
(* blank, EQ "=", COLON ":", COMMA ",", QUOTE the CSV quote character and  *)
(* BIGFIELD a field longer than the csv module's field limit.  String      *)
(* operations of the program (splitlines, split, strip, count, len, +)     *)
(* are computed on these sequences.                                        *)
(***************************************************************************)
EXTENDS Integers, Sequences, FiniteSets, TLC

LF == "LF"
SP == " "
EQ == "="
COLON == ":"
COMMA == ","
QUOTE == "QUOTE"
BIGFIELD == "BIGFIELD"

\* ---------------------------------------------------------------- bounds
\* largest elapsed time (in ticks) one collector may measure
MaxElapsed == 2
\* commands that may deviate from their usual outcome when a collector is
\* exercised on its own
MaxOdd == 2
\* largest number of data rows in a process listing
MaxRows == 41

\* ------------------------------------------------------- string helpers
\* the lines of s from position p on
RECURSIVE LinesFrom(_, _)
LinesFrom(s, p) ==
    IF p > Len(s) THEN <<>>
    ELSE IF \E i \in p..Len(s) : s[i] = LF
         THEN LET e == CHOOSE i \in p..Len(s) : s[i] = LF /\ \A j \in p..(i - 1) : s[j] # LF
              IN  <<SubSeq(s, p, e - 1)>> \o LinesFrom(s, e + 1)
         ELSE <<SubSeq(s, p, Len(s))>>

\* str.splitlines(): the lines without their terminators; a last line that is
\* not terminated counts, an empty tail does not
splitlines(s) == LinesFrom(s, 1)

\* `tok in line`
Has(line, tok) == \E i \in 1..Len(line) : line[i] = tok

FirstAt(line, tok) == CHOOSE i \in 1..Len(line) :
                         line[i] = tok /\ \A j \in 1..(i - 1) : line[j] # tok

\* line.split(tok, 1) for a line that contains tok
SplitOnce(line, tok) ==
    LET i == FirstAt(line, tok)
    IN  <<SubSeq(line, 1, i - 1), SubSeq(line, i + 1, Len(line))>>

RECURSIVE LStrip(_)
LStrip(s) == IF s # <<>> /\ Head(s) = SP THEN LStrip(Tail(s)) ELSE s

RECURSIVE RStrip(_)
RStrip(s) == IF s # <<>> /\ s[Len(s)] = SP THEN RStrip(SubSeq(s, 1, Len(s) - 1)) ELSE s

\* str.strip()
Strip(s) == RStrip(LStrip(s))

RECURSIVE WordFrom(_)
WordFrom(s) == IF s = <<>> \/ Head(s) = SP THEN <<>> ELSE <<Head(s)>> \o WordFrom(Tail(s))

\* line.split(): is there a first word, and which one
HasWord(line) == LStrip(line) # <<>>
FirstWord(line) == WordFrom(LStrip(line))

RECURSIVE CountFrom(_, _, _)
CountFrom(s, sub, i) ==
    IF i + Len(sub) - 1 > Len(s) THEN 0
    ELSE IF SubSeq(s, i, i + Len(sub) - 1) = sub
         THEN 1 + CountFrom(s, sub, i + Len(sub))
         ELSE CountFrom(s, sub, i + 1)

\* str.count(sub): non-overlapping occurrences
Count(s, sub) == CountFrom(s, sub, 1)

\* d[k] = v on a dict
Put(d, k, v) == [x \in (DOMAIN d) \cup {k} |-> IF x = k THEN v ELSE d[x]]

EmptyDict == <<>>

RECURSIVE KvFold(_, _, _)
KvFold(ls, sep, d) ==
    IF ls = <<>> THEN d
    ELSE IF Has(Head(ls), sep)
         THEN LET kv == SplitOnce(Head(ls), sep)
              IN  KvFold(Tail(ls), sep, Put(d, Strip(kv[1]), Strip(kv[2])))
         ELSE KvFold(Tail(ls), sep, d)

parse_wmic(text) == KvFold(splitlines(text), EQ, EmptyDict)

\* the dict comprehension over systeminfo's "Key: Value" lines
systeminfo_parsed(text) == KvFold(splitlines(text), COLON, EmptyDict)

\* ----------------------------------------------------------- csv.reader
RECURSIVE CsvFrom(_, _, _, _)
CsvFrom(line, i, inq, cur) ==
    IF i > Len(line) THEN <<cur>>
    ELSE IF line[i] = QUOTE THEN CsvFrom(line, i + 1, ~inq, cur)
    ELSE IF line[i] = COMMA /\ ~inq THEN <<cur>> \o CsvFrom(line, i + 1, inq, <<>>)
    ELSE CsvFrom(line, i + 1, inq, Append(cur, line[i]))

\* one row of csv.reader: an empty line gives the empty row []
CsvRow(line) == IF line = <<>> THEN <<>> ELSE CsvFrom(line, 1, FALSE, <<>>)

\* csv.Error: a field larger than the field limit
CsvError(text) == Has(text, BIGFIELD)

csv_rows(text) == LET ls == splitlines(text) IN [i \in 1..Len(ls) |-> CsvRow(ls[i])]

Min(a, b) == IF a < b THEN a ELSE b

\* dict(zip(header, row)): later duplicates of a header field win
RECURSIVE ZipFold(_, _, _, _)
ZipFold(h, row, i, d) ==
    IF i > Min(Len(h), Len(row)) THEN d
    ELSE ZipFold(h, row, i + 1, Put(d, h[i], row[i]))

dict_zip(h, row) == ZipFold(h, row, 1, EmptyDict)

\* rows[1:41]
SampleCap == 40

process_sample(rows) ==
    IF rows = <<>> THEN <<>>
    ELSE [i \in 1..Min(Len(rows) - 1, SampleCap) |-> dict_zip(rows[1], rows[i + 1])]

\* -------------------------------------------------------------- commands
COMMANDS == [
    systeminfo |-> "systeminfo",
    wmic_cpu |-> "wmic cpu get /format:list",
    wmic_bios |-> "wmic bios get /format:list",
    wmic_baseboard |-> "wmic baseboard get /format:list",
    wmic_diskdrive |-> "wmic diskdrive get /format:list",
    wmic_video |-> "wmic path win32_VideoController get /format:list",
    driverquery |-> "driverquery /v /fo list",
    tasklist_csv |-> "tasklist /V /FO CSV",
    get_pnp_device |-> "powershell Get-PnpDevice",
    get_physicaldisk |-> "powershell Get-PhysicalDisk",
    get_partition |-> "powershell Get-Partition",
    get_netadapter |-> "powershell Get-NetAdapter",
    wevtutil_system |-> "wevtutil qe System",
    wevtutil_app |-> "wevtutil qe Application",
    dxdiag |-> "dxdiag /t dxdiag_output.txt",
    powercfg_query |-> "powercfg /q",
    bcdedit |-> "bcdedit /enum all",
    wmic_logicaldevice |-> "wmic path CIM_LogicalDevice get /format:list",
    wmic_service |-> "wmic service get /format:list" ]

MicrocodeCmd == <<"powershell Get-WinEvent microcode">>
UsbCmd == <<"powershell Get-PnpDevice USB">>
BluetoothCmd == <<"powershell Get-PnpDevice Bluetooth">>
ScanCmd == <<"smartctl --scan">>

\* COMMANDS[cmd] as text
CmdLine(c) == <<COMMANDS[c]>>

\* f"smartctl -H {dev}"
HealthCmd(dev) == <<"smartctl -H ">> \o dev

modules == <<"system", "hardware", "firmware", "storage", "peripherals">>
Domains == {modules[i] : i \in 1..Len(modules)}

SystemLoop == <<"wevtutil_system", "wevtutil_app", "driverquery", "wmic_service">>
HardwareLoop == <<"wmic_cpu", "wmic_bios", "wmic_baseboard", "wmic_video">>
FirmwareLoop == <<"bcdedit", "powercfg_query">>
StorageLoop == <<"wmic_diskdrive", "get_physicaldisk", "get_partition">>
PeripheralsLoop == <<"get_pnp_device", "get_netadapter", "wmic_logicaldevice">>

\* cmd.split("_")[1] for the hardware commands
HardwareKey(c) == CASE c = "wmic_cpu" -> "cpu" [] c = "wmic_bios" -> "bios"
                    [] c = "wmic_baseboard" -> "baseboard" [] OTHER -> "video"

\* "pnp" in cmd, "netadapter" in cmd
NameHasPnp(c) == c = "get_pnp_device"
NameHasNetadapter(c) == c = "get_netadapter"

\* 40 if "pnp" in cmd else 30
PeripheralsTimeout(c) == IF NameHasPnp(c) THEN 40 ELSE 30

\* ------------------------------------------- what the host's commands do
\* A process listing: a header row and n data rows.  Every third row is
\* shorter than the header, every third row longer; fields are quoted.
RECURSIVE TaskRows(_, _)
TaskRows(i, n) ==
    IF i > n THEN <<>>
    ELSE (CASE i % 3 = 0 -> <<QUOTE, "svc", QUOTE, LF>>
            [] i % 3 = 1 -> <<QUOTE, "app", COMMA, "x", QUOTE, COMMA, QUOTE, ToString(i), QUOTE, LF>>
            [] OTHER -> <<QUOTE, "app", QUOTE, COMMA, QUOTE, ToString(i), QUOTE,
                          COMMA, QUOTE, "extra", QUOTE, LF>>)
         \o TaskRows(i + 1, n)

TaskHeader == <<QUOTE, "Image Name", QUOTE, COMMA, QUOTE, "PID", QUOTE, LF>>
TaskList(n) == TaskHeader \o TaskRows(1, n)
RowCounts == {0, 1, 3, MaxRows - 1, MaxRows}

\* the usual standard output of each command on a healthy host
CanonOut(key) ==
    CASE key = "systeminfo" -> <<"Host Name", COLON, SP, "PC1", LF, "OS Name", COLON, SP, "Win", COLON, "11", LF>>
      [] key = "tasklist_csv" -> TaskList(2)
      [] key = "driverquery" -> <<"Driver Name", COLON, SP, "a", LF, "Driver Name", COLON, SP, "b", LF>>
      [] key = "wmic_service" -> <<"Name", EQ, "svc", LF>>
      [] key = "wmic_cpu" -> <<"Name", EQ, "cpu0", LF>>
      [] key = "wmic_bios" -> <<"Manufacturer", EQ, "Dell", SP, LF, LF, SP, "SerialNumber", SP, EQ, SP, "X1", LF>>
      [] key = "wmic_baseboard" -> <<"Product", EQ, "B1", LF>>
      [] key = "wmic_video" -> <<"Name", EQ, "gpu", EQ, "0", LF, "Name", EQ, "gpu1", LF>>
      [] key = "microcode" -> <<>>
      [] key = "smartctl_scan" -> <<"/dev/sda", SP, "-d", SP, "ata", LF>>
      [] key = "dxdiag" -> <<>>
      [] key = "usb" -> <<"usb", LF>>
      [] key = "get_pnp_device" -> <<"pnp", SP, "dev", LF>>
      [] key = "get_netadapter" -> <<"net", SP, "adapter", SP, "up", LF>>
      [] key = "wmic_logicaldevice" -> <<"Name", EQ, "logical", SP, "dev", SP, "0", LF>>
      [] OTHER -> <<"data", LF>>

\* other standard outputs a command may produce
AltOuts(key) ==
    CASE key = "systeminfo" -> {<<"no colon here", LF, LF, "Host Name", COLON, "PC2", LF>>}
      [] key = "tasklist_csv" ->
            {TaskList(n) : n \in RowCounts}
            \cup {<<LF>> \o TaskList(1), <<QUOTE, BIGFIELD, QUOTE, LF>>, <<>>,
                  TaskHeader \o <<LF, "app", COMMA, "7", LF>>}
      [] key = "driverquery" -> {<<>>}
      [] key = "wmic_service" -> {<<"Name", EQ, "Driver Name", LF, "x", LF>>}
      [] key = "wmic_bios" -> {<<"ReleaseDate", EQ, "2020", LF, "ReleaseDate", EQ, "2021", LF>>}
      [] key = "microcode" -> {<<"Message", COLON, SP, "microcode", LF>>,
                               <<"Manufacturer", EQ, "from event log", LF>>}
      [] key = "smartctl_scan" -> {<<>>, <<"/dev/sda", SP, "-d", SP, "ata", LF, LF>>,
                                   <<"/dev/sda", LF, SP, "/dev/sdb", LF>>}
      [] OTHER -> {}

Completed(rcode, o, e) == [kind |-> "completed", returncode |-> rcode, stdout |-> o, stderr |-> e]
Canon(key) == Completed(0, CanonOut(key), <<>>)

\* A command's deviations: other outputs, a nonzero exit, a shell killed by
\* signal 1 (Popen.returncode == -1 on POSIX), a timeout with and without
\* partial output, a failure to start the process.
Odd(key) ==
    {Completed(0, t, <<>>) : t \in AltOuts(key)}
    \cup {Completed(1, <<>>, <<"Access denied", LF>>),
          Completed(-1, <<>>, <<>>),
          [kind |-> "timeout", returncode |-> 0, stdout |-> <<>>, stderr |-> <<>>],
          [kind |-> "timeout", returncode |-> 0,
           stdout |-> SubSeq(CanonOut(key), 1, Min(1, Len(CanonOut(key)))), stderr |-> <<>>],
          [kind |-> "exception", returncode |-> 0, stdout |-> <<>>,
           stderr |-> <<"[Errno 12] Cannot allocate memory">>]}

Outcomes(key, budget) == {Canon(key)} \cup (IF budget > 0 THEN Odd(key) ELSE {})
Cost(key, o) == IF o = Canon(key) THEN 0 ELSE 1

\* ------------------------------------------------------------------ run
\* str(e) of subprocess.TimeoutExpired
TimeoutStr(cmdline, t) == <<"Command '">> \o cmdline \o <<"' timed out after ", ToString(t), " seconds">>

run(cmdline, t, o) ==
    CASE o.kind = "completed" -> [rc |-> o.returncode, out |-> o.stdout, err |-> o.stderr]
      [] o.kind = "timeout" -> [rc |-> -1, out |-> o.stdout,
                                err |-> <<"TIMEOUT", COLON, SP>> \o TimeoutStr(cmdline, t)]
      [] OTHER -> [rc |-> -1, out |-> <<>>, err |-> o.stderr]

LogLine(level, msg) == [level |-> level, msg |-> msg]

\* the log lines run() appends
run_log(cmdline, o) ==
    <<LogLine("INFO", <<"Running: ">> \o cmdline)>>
    \o (CASE o.kind = "completed" -> <<>>
          [] o.kind = "timeout" -> <<LogLine("WARN", <<"Timeout: ">> \o cmdline)>>
          [] OTHER -> <<LogLine("ERROR", <<"Error: ">> \o cmdline \o <<" - ">> \o o.stderr)>>)

\* "### <name>\n" + out + "\nERR:\n" + err
Block(label, res) == <<"###", SP>> \o label \o <<LF>> \o res.out \o <<LF, "ERR:", LF>> \o res.err

\* a collector that records only the commands that exited with 0
Record_skip_failed(blocks, label, res) ==
    IF res.rc = 0 THEN Append(blocks, Block(label, res)) ELSE blocks

\* raw_blocks.append(...)
Record(blocks, label, res) == Append(blocks, Block(label, res))

\* ---------------------------------------------------------------- state
VARIABLES
    pc,          \* where the program is
    mi,          \* main: index of the module being run (for name, fn in modules)
    summary_map, \* main: the aggregate mapping
    live_status, \* main: name -> bool
    ret,         \* what the collector last called did: returned a summary or raised
    raw_blocks,  \* collector local
    summary,     \* collector local
    r,           \* collector local: the result variable r
    cmd,         \* collector local: the loop variable cmd
    usb,         \* collect_peripherals local
    li,          \* collector local: position in the command loop
    scan,        \* collect_storage: the lines of the scan listing still to visit
    files,       \* the artifacts on disk: path -> content
    lines,       \* logger.lines
    psutil,      \* is the psutil module importable
    oddLeft,     \* how many more commands may deviate from their usual outcome
    calls,       \* history: the run() calls of the collector being executed
    rets,        \* history: domain -> what its collector did
    events       \* history: collectors called, aggregate written, log flushed

vars == <<pc, mi, summary_map, live_status, ret, raw_blocks, summary, r, cmd, usb, li,
          scan, files, lines, psutil, oddLeft, calls, rets, events>>

mainVars == <<mi, summary_map, live_status, rets, events>>
envVars == <<psutil>>

NoResult == [rc |-> 0, out |-> <<>>, err |-> <<>>]
NoRet == [kind |-> "none", value |-> EmptyDict, error |-> <<>>]

\* {"collected_at": datetime.now(UTC)...}
Seed == [collected_at |-> "T"]

Entry(d) == CASE d = "system" -> "sys_systeminfo" [] d = "hardware" -> "hw_loop"
              [] d = "firmware" -> "fw_bios" [] d = "storage" -> "st_loop"
              [] OTHER -> "per_usb"

\* start = ...; raw_blocks, summary = [], {...}
Enter(d) ==
    /\ pc' = Entry(d)
    /\ raw_blocks' = <<>>
    /\ summary' = Seed
    /\ r' = NoResult
    /\ cmd' = ""
    /\ usb' = NoResult
    /\ li' = 1
    /\ scan' = <<>>
    /\ calls' = <<>>
    /\ ret' = NoRet

\* one run() call followed by raw_blocks.append: the block, the log lines,
\* the call history, the budget of deviations
Exec(key, cmdline, t, label, o) ==
    /\ o \in Outcomes(key, oddLeft)
    /\ oddLeft' = oddLeft - Cost(key, o)
    /\ raw_blocks' = Record(raw_blocks, label, run(cmdline, t, o))
    /\ lines' = lines \o run_log(cmdline, o)
    /\ calls' = Append(calls, [label |-> label, kind |-> o.kind, rc |-> run(cmdline, t, o).rc,
                              out |-> run(cmdline, t, o).out, err |-> run(cmdline, t, o).err])

\* ------------------------------------------------ write_summary_and_raw
SummaryPath(folder) == <<folder, "summary.json">>
RawPath(folder) == <<folder, "raw.txt">>
AggregatePath == <<"result", "results_of_all_files.json">>
LogPath == <<"logs", "run.txt">>

\* block + ("\n" if not block.endswith("\n") else "") + "\n----\n\n"
RawEntry(block) ==
    block \o (IF block # <<>> /\ block[Len(block)] = LF THEN <<>> ELSE <<LF>>)
          \o <<LF, "----", LF, LF>>

RECURSIVE RawEntries(_)
RawEntries(blocks) ==
    IF blocks = <<>> THEN <<>> ELSE RawEntry(Head(blocks)) \o RawEntries(Tail(blocks))

\* the text written to raw.txt
raw_txt(blocks) == <<"==== RAW OUTPUT ====", LF>> \o RawEntries(blocks)

\* how the two open(..., "w") calls may go
WriteOutcomes == {"ok", "summary_fails", "raw_fails"}

\* the files after write_summary_and_raw; it raises unless w = "ok"
write_summary_and_raw(folder, summ, blocks, w) ==
    CASE w = "ok" -> Put(Put(files, SummaryPath(folder), summ), RawPath(folder), raw_txt(blocks))
      [] w = "raw_fails" -> Put(files, SummaryPath(folder), summ)
      [] OTHER -> files

\* str(e) of the OSError
WriteError(folder, w) ==
    <<"Permission denied">> \o (IF w = "raw_fails" THEN RawPath(folder) ELSE SummaryPath(folder))

Returned(summ) == [kind |-> "return", value |-> summ, error |-> <<>>]
Raised(msg) == [kind |-> "raise", value |-> EmptyDict, error |-> msg]

\* summary["elapsed_seconds"] = ...; write_summary_and_raw(...); logger.info(...);
\* return summary
Finish(d, summ, blocks, e, w) ==
    LET final == Put(summ, "elapsed_seconds", e)
    IN  /\ e \in 1..MaxElapsed
        /\ w \in WriteOutcomes
        /\ summary' = final
        /\ raw_blocks' = blocks
        /\ files' = write_summary_and_raw(d, final, blocks, w)
        /\ lines' = IF w = "ok" THEN Append(lines, LogLine("INFO", <<d, " done">>)) ELSE lines
        /\ ret' = IF w = "ok" THEN Returned(final) ELSE Raised(WriteError(d, w))
        /\ pc' = "collected"

\* the psutil calls inside try/except: they succeed or the first one raises
PsutilOutcomes == {"ok"} \cup (IF oddLeft > 0 THEN {"error"} ELSE {})
PsutilCost(pe) == IF psutil = "present" /\ pe = "error" THEN 1 ELSE 0

\* ------------------------------------------------------- collect_system
collect_system_systeminfo ==
    /\ pc = "sys_systeminfo"
    /\ \E o \in Outcomes("systeminfo", oddLeft) :
        LET res == run(CmdLine("systeminfo"), 30, o)
        IN  /\ Exec("systeminfo", CmdLine("systeminfo"), 30, <<"systeminfo">>, o)
            /\ r' = res
            /\ summary' = Put(summary, "systeminfo_parsed", systeminfo_parsed(res.out))
    /\ pc' = "sys_tasklist"
    /\ UNCHANGED <<cmd, usb, li, scan, files, ret, mainVars, envVars>>

collect_system_tasklist ==
    /\ pc = "sys_tasklist"
    /\ \E o \in Outcomes("tasklist_csv", oddLeft) :
        LET r2 == run(CmdLine("tasklist_csv"), 30, o)
        IN  /\ Exec("tasklist_csv", CmdLine("tasklist_csv"), 30, <<"tasklist">>, o)
            /\ summary' = IF CsvError(r2.out)
                          THEN Put(summary, "process_sample_parse_error", "CSV error")
                          ELSE Put(summary, "process_sample", process_sample(csv_rows(r2.out)))
    /\ pc' = "sys_loop"
    /\ UNCHANGED <<r, cmd, usb, li, scan, files, ret, mainVars, envVars>>

collect_system_loop ==
    /\ pc = "sys_loop"
    /\ li \in 1..Len(SystemLoop)
    /\ \E o \in Outcomes(SystemLoop[li], oddLeft) :
        /\ Exec(SystemLoop[li], CmdLine(SystemLoop[li]), 40, <<SystemLoop[li]>>, o)
        /\ r' = run(CmdLine(SystemLoop[li]), 40, o)
    /\ cmd' = SystemLoop[li]
    /\ li' = li + 1
    /\ pc' = IF li = Len(SystemLoop) THEN "sys_finish" ELSE "sys_loop"
    /\ UNCHANGED <<summary, usb, scan, files, ret, mainVars, envVars>>

collect_system_finish ==
    /\ pc = "sys_finish"
    /\ \E e \in 1..MaxElapsed, w \in WriteOutcomes :
        Finish("system",
               Put(Put(summary, "drivers_count", Count(r.out, <<"Driver Name">>)),
                   "services_length", Len(r.out)),
               raw_blocks, e, w)
    /\ UNCHANGED <<r, cmd, usb, li, scan, oddLeft, calls, mainVars, envVars>>

\* ----------------------------------------------------- collect_hardware
PsutilHardware(summ, pe) ==
    IF pe = "ok"
    THEN Put(Put(Put(Put(Put(summ, "logical_cpus", 8), "physical_cpus", 4),
                     "cpu_freq_mhz", [current |-> 2400, min |-> 800, max |-> 3600]),
                 "memory_total_bytes", 16), "memory_available_bytes", 8)
    ELSE Put(summ, "psutil_error", "Error")

collect_hardware_loop ==
    /\ pc = "hw_loop"
    /\ li \in 1..Len(HardwareLoop)
    /\ \E o \in Outcomes(HardwareLoop[li], oddLeft) :
        LET res == run(CmdLine(HardwareLoop[li]), 20, o)
        IN  /\ Exec(HardwareLoop[li], CmdLine(HardwareLoop[li]), 20, <<HardwareLoop[li]>>, o)
            /\ r' = res
            /\ summary' = Put(summary, HardwareKey(HardwareLoop[li]), parse_wmic(res.out))
    /\ cmd' = HardwareLoop[li]
    /\ li' = li + 1
    /\ pc' = IF li = Len(HardwareLoop) THEN "hw_finish" ELSE "hw_loop"
    /\ UNCHANGED <<usb, scan, files, ret, mainVars, envVars>>

collect_hardware_finish ==
    /\ pc = "hw_finish"
    /\ \E pe \in PsutilOutcomes, e \in 1..MaxElapsed, w \in WriteOutcomes :
        LET s1 == Put(summary, "video_raw_length", Len(r.out))
        IN  /\ psutil = "absent" => pe = "ok"
            /\ oddLeft' = oddLeft - PsutilCost(pe)
            /\ Finish("hardware",
                      IF psutil = "present" THEN PsutilHardware(s1, pe) ELSE s1,
                      IF psutil = "present" THEN raw_blocks
                      ELSE Append(raw_blocks, <<"###", SP, "psutil not available", LF>>),
                      e, w)
    /\ UNCHANGED <<r, cmd, usb, li, scan, calls, mainVars, envVars>>

\* ----------------------------------------------------- collect_firmware
FirmwareFields == {"Manufacturer", "SMBIOSBIOSVersion", "BIOSVersion", "SerialNumber", "ReleaseDate"}

\* for k in [...]: if k in parsed: summary[k] = parsed[k]
RECURSIVE Lift(_, _, _)
Lift(summ, parsed, ks) ==
    IF ks = {} THEN summ
    ELSE LET k == CHOOSE x \in ks : TRUE
         IN  Lift(IF <<k>> \in DOMAIN parsed THEN Put(summ, k, parsed[<<k>>]) ELSE summ,
                  parsed, ks \ {k})

\* what dxdiag leaves at dxdiag_output.txt
DxFiles(o) ==
    IF o = Canon("dxdiag")
    THEN {"written"} \cup (IF oddLeft > 0 THEN {"absent", "unreadable"} ELSE {})
    ELSE {"absent"}

\* safe_read_file(dx_out)
safe_read_file(dx) ==
    IF dx = "written" THEN <<"dxdiag report", LF>>
    ELSE <<"<error reading ", "dxdiag_output.txt", ">">>

collect_firmware_bios ==
    /\ pc = "fw_bios"
    /\ \E o \in Outcomes("wmic_bios", oddLeft) :
        /\ Exec("wmic_bios", CmdLine("wmic_bios"), 15, <<"wmic bios">>, o)
        /\ r' = run(CmdLine("wmic_bios"), 15, o)
    /\ pc' = "fw_loop"
    /\ UNCHANGED <<summary, cmd, usb, li, scan, files, ret, mainVars, envVars>>

collect_firmware_loop ==
    /\ pc = "fw_loop"
    /\ li \in 1..Len(FirmwareLoop)
    /\ \E o \in Outcomes(FirmwareLoop[li], oddLeft) :
        /\ Exec(FirmwareLoop[li], CmdLine(FirmwareLoop[li]), 20, <<FirmwareLoop[li]>>, o)
        /\ r' = run(CmdLine(FirmwareLoop[li]), 20, o)
    /\ cmd' = FirmwareLoop[li]
    /\ li' = li + 1
    /\ pc' = IF li = Len(FirmwareLoop) THEN "fw_dxdiag" ELSE "fw_loop"
    /\ UNCHANGED <<summary, usb, scan, files, ret, mainVars, envVars>>

collect_firmware_dxdiag ==
    /\ pc = "fw_dxdiag"
    /\ \E o \in Outcomes("dxdiag", oddLeft) : \E dx \in DxFiles(o) :
        LET res == run(CmdLine("dxdiag"), 30, o)
        IN  /\ r' = res
            /\ oddLeft' = oddLeft - (IF o = Canon("dxdiag") /\ dx = "written" THEN 0 ELSE 1)
            /\ raw_blocks' = Append(raw_blocks,
                   IF dx = "absent" THEN Block(<<"dxdiag">>, res)
                   ELSE <<"###", SP, "dxdiag", LF>> \o safe_read_file(dx))
            /\ lines' = lines \o run_log(CmdLine("dxdiag"), o)
            /\ calls' = Append(calls, [label |-> <<"dxdiag">>, kind |-> o.kind, rc |-> res.rc,
                                       out |-> res.out, err |-> res.err])
    /\ pc' = "fw_events"
    /\ UNCHANGED <<summary, cmd, usb, li, scan, files, ret, mainVars, envVars>>

collect_firmware_events ==
    /\ pc = "fw_events"
    /\ \E o \in Outcomes("microcode", oddLeft) :
        /\ Exec("microcode", MicrocodeCmd, 30, <<"microcode events">>, o)
        /\ r' = run(MicrocodeCmd, 30, o)
    /\ pc' = "fw_finish"
    /\ UNCHANGED <<summary, cmd, usb, li, scan, files, ret, mainVars, envVars>>

collect_firmware_finish ==
    /\ pc = "fw_finish"
    /\ \E e \in 1..MaxElapsed, w \in WriteOutcomes :
        Finish("firmware", Lift(summary, parse_wmic(r.out), FirmwareFields), raw_blocks, e, w)
    /\ UNCHANGED <<r, cmd, usb, li, scan, oddLeft, calls, mainVars, envVars>>

\* ------------------------------------------------------ collect_storage
\* shutil.which("smartctl") finds the tool or not
collect_storage_loop ==
    /\ pc = "st_loop"
    /\ li \in 1..Len(StorageLoop)
    /\ \E o \in Outcomes(StorageLoop[li], oddLeft) :
        /\ Exec(StorageLoop[li], CmdLine(StorageLoop[li]), 30, <<StorageLoop[li]>>, o)
        /\ r' = run(CmdLine(StorageLoop[li]), 30, o)
    /\ cmd' = StorageLoop[li]
    /\ li' = li + 1
    /\ pc' = IF li = Len(StorageLoop) THEN "st_scan" ELSE "st_loop"
    /\ UNCHANGED <<summary, usb, scan, files, ret, mainVars, envVars>>

collect_storage_scan ==
    /\ pc = "st_scan"
    /\ \E found \in BOOLEAN :
        IF found
        THEN \E o \in Outcomes("smartctl_scan", oddLeft) :
                LET res == run(ScanCmd, 20, o)
                IN  /\ Exec("smartctl_scan", ScanCmd, 20, <<"smartctl scan">>, o)
                    /\ r' = res
                    /\ scan' = splitlines(res.out)
                    /\ pc' = IF splitlines(res.out) = <<>> THEN "st_finish" ELSE "st_dev"
        ELSE /\ raw_blocks' = Append(raw_blocks, <<"###", SP, "smartctl not found", LF>>)
             /\ pc' = "st_finish"
             /\ UNCHANGED <<r, scan, lines, oddLeft, calls>>
    /\ UNCHANGED <<summary, cmd, usb, li, files, ret, mainVars, envVars>>

\* one iteration of `for line in r["out"].splitlines()`; line.split()[0] raises
\* IndexError on a line without a word
collect_storage_dev ==
    /\ pc = "st_dev"
    /\ scan # <<>>
    /\ IF HasWord(Head(scan))
       THEN \E o \in Outcomes("smartctl_health", oddLeft) :
                LET dev == FirstWord(Head(scan))
                IN  /\ Exec("smartctl_health", HealthCmd(dev), 20, <<"smartctl", SP>> \o dev, o)
                    /\ r' = run(HealthCmd(dev), 20, o)
                    /\ scan' = Tail(scan)
                    /\ pc' = IF Tail(scan) = <<>> THEN "st_finish" ELSE "st_dev"
                    /\ ret' = ret
       ELSE /\ ret' = Raised(<<"list index out of range">>)
            /\ pc' = "collected"
            /\ UNCHANGED <<r, scan, raw_blocks, lines, oddLeft, calls>>
    /\ UNCHANGED <<summary, cmd, usb, li, files, mainVars, envVars>>

PsutilStorage(summ, pe) ==
    IF pe = "ok"
    THEN Put(summ, "partitions_sample",
             <<[device |-> "C:", mountpoint |-> "C:", fstype |-> "NTFS",
                total |-> 100, used |-> 40, free |-> 60, percent |-> 40]>>)
    ELSE Put(summ, "partitions_error", "Error")

collect_storage_finish ==
    /\ pc = "st_finish"
    /\ \E pe \in PsutilOutcomes, e \in 1..MaxElapsed, w \in WriteOutcomes :
        /\ psutil = "absent" => pe = "ok"
        /\ oddLeft' = oddLeft - PsutilCost(pe)
        /\ Finish("storage",
                  IF psutil = "present" THEN PsutilStorage(summary, pe) ELSE summary,
                  raw_blocks, e, w)
    /\ UNCHANGED <<r, cmd, usb, li, scan, calls, mainVars, envVars>>

\* -------------------------------------------------- collect_peripherals
collect_peripherals_usb ==
    /\ pc = "per_usb"
    /\ \E o \in Outcomes("usb", oddLeft) :
        /\ Exec("usb", UsbCmd, 40, <<"USB">>, o)
        /\ usb' = run(UsbCmd, 40, o)
    /\ pc' = "per_loop"
    /\ UNCHANGED <<summary, r, cmd, li, scan, files, ret, mainVars, envVars>>

collect_peripherals_loop ==
    /\ pc = "per_loop"
    /\ li \in 1..Len(PeripheralsLoop)
    /\ \E o \in Outcomes(PeripheralsLoop[li], oddLeft) :
        LET c == PeripheralsLoop[li]
        IN  /\ Exec(c, CmdLine(c), PeripheralsTimeout(c), <<c>>, o)
            /\ r' = run(CmdLine(c), PeripheralsTimeout(c), o)
    /\ cmd' = PeripheralsLoop[li]
    /\ li' = li + 1
    /\ pc' = IF li = Len(PeripheralsLoop) THEN "per_bt" ELSE "per_loop"
    /\ UNCHANGED <<summary, usb, scan, files, ret, mainVars, envVars>>

collect_peripherals_bt ==
    /\ pc = "per_bt"
    /\ \E o \in Outcomes("bluetooth", oddLeft) :
        Exec("bluetooth", BluetoothCmd, 20, <<"Bluetooth">>, o)
    /\ pc' = "per_finish"
    /\ UNCHANGED <<summary, r, cmd, usb, li, scan, files, ret, mainVars, envVars>>

collect_peripherals_finish ==
    /\ pc = "per_finish"
    /\ \E e \in 1..MaxElapsed, w \in WriteOutcomes :
        Finish("peripherals",
               Put(Put(Put(summary, "usb_entries_length", Len(usb.out)),
                       "pnp_entries_length", IF NameHasPnp(cmd) THEN Len(r.out) ELSE 0),
                   "netadapter_entries_length", IF NameHasNetadapter(cmd) THEN Len(r.out) ELSE 0),
               raw_blocks, e, w)
    /\ UNCHANGED <<r, cmd, usb, li, scan, oddLeft, calls, mainVars, envVars>>

Collect ==
    \/ collect_system_systeminfo \/ collect_system_tasklist
    \/ collect_system_loop \/ collect_system_finish
    \/ collect_hardware_loop \/ collect_hardware_finish
    \/ collect_firmware_bios \/ collect_firmware_loop \/ collect_firmware_dxdiag
    \/ collect_firmware_events \/ collect_firmware_finish
    \/ collect_storage_loop \/ collect_storage_scan \/ collect_storage_dev
    \/ collect_storage_finish
    \/ collect_peripherals_usb \/ collect_peripherals_loop \/ collect_peripherals_bt
    \/ collect_peripherals_finish

\* ----------------------------------------------------------------- main
\* res of run_module_with_spinner: the summary, or {"error": str(e)}
module_result(rt) == IF rt.kind = "return" THEN rt.value ELSE [error |-> rt.error]

\* a loop that stops at the first collector that raised
next_module_abort(i, rt) == IF rt.kind = "raise" THEN Len(modules) + 1 ELSE i + 1

\* the for loop moves on to the next module whatever the collector did
next_module(i, rt) == i + 1

\* res.get("elapsed_seconds", 0)
elapsed_of(entry) == IF "elapsed_seconds" \in DOMAIN entry THEN entry["elapsed_seconds"] ELSE 0

RECURSIVE SumElapsed(_, _)
SumElapsed(sm, i) ==
    IF i > Len(modules) THEN 0
    ELSE (IF modules[i] \in DOMAIN sm THEN elapsed_of(sm[modules[i]]) ELSE 0) + SumElapsed(sm, i + 1)

\* a total taken from the loop's last `elapsed` alone
total_elapsed_last(sm) == elapsed_of(sm[modules[Len(modules)]])

\* sum(summary_map.get(m, {}).get("elapsed_seconds", 0) for m, _ in modules)
total_elapsed(sm) == SumElapsed(sm, 1)

main_init ==
    /\ pc = "main_init"
    /\ \E admin \in BOOLEAN :
        /\ summary_map' = [collected_at |-> "T", local_start |-> "T0", admin |-> admin]
        /\ lines' = lines \o <<LogLine("INFO", <<"Admin: ", ToString(admin)>>)>>
                          \o (IF admin THEN <<>>
                              ELSE <<LogLine("WARN", <<"Not admin - limited queries">>)>>)
    /\ live_status' = [d \in Domains |-> FALSE]
    /\ mi' = 1
    /\ pc' = "main_loop"
    /\ UNCHANGED <<ret, raw_blocks, summary, r, cmd, usb, li, scan, files, oddLeft, calls,
                   rets, events, envVars>>

\* for name, fn in modules: ... res = fn()
main_call ==
    /\ pc = "main_loop"
    /\ mi \in 1..Len(modules)
    /\ Enter(modules[mi])
    /\ events' = Append(events, modules[mi])
    /\ UNCHANGED <<mi, summary_map, live_status, files, lines, oddLeft, rets, envVars>>

\* the collector returned or raised: status_map[name], summary_map[name] = res
main_return ==
    /\ pc = "collected"
    /\ live_status' = [live_status EXCEPT ![modules[mi]] = (ret.kind = "return")]
    /\ summary_map' = Put(summary_map, modules[mi], module_result(ret))
    /\ rets' = Put(rets, modules[mi], ret)
    /\ mi' = next_module(mi, ret)
    /\ pc' = "main_loop"
    /\ UNCHANGED <<ret, raw_blocks, summary, r, cmd, usb, li, scan, files, lines, oddLeft,
                   calls, events, envVars>>

\* total_elapsed; aggregate_results(summary_map): open() may raise, and nothing
\* in main catches it
main_aggregate ==
    /\ pc = "main_loop"
    /\ mi > Len(modules)
    /\ \E ok \in BOOLEAN :
        LET sm == Put(summary_map, "total_elapsed_seconds", total_elapsed(summary_map))
        IN  /\ summary_map' = sm
            /\ files' = IF ok THEN Put(files, AggregatePath, sm) ELSE files
            /\ lines' = IF ok THEN Append(lines, LogLine("INFO", <<"Aggregated results written">>))
                        ELSE lines
            /\ events' = IF ok THEN Append(events, "aggregate") ELSE events
            /\ pc' = IF ok THEN "main_flush" ELSE "aborted"
    /\ UNCHANGED <<mi, live_status, ret, raw_blocks, summary, r, cmd, usb, li, scan, oddLeft,
                   calls, rets, envVars>>

\* logger.dump_to_file(logfile): returns False when the write fails
main_flush ==
    /\ pc = "main_flush"
    /\ \E ok \in BOOLEAN :
        /\ files' = IF ok THEN Put(files, LogPath, lines) ELSE files
        /\ events' = Append(events, IF ok THEN "flush" ELSE "flush failed")
    /\ pc' = "done"
    /\ UNCHANGED <<mi, summary_map, live_status, ret, raw_blocks, summary, r, cmd, usb, li, scan,
                   lines, oddLeft, calls, rets, envVars>>

Main == main_init \/ main_call \/ main_return \/ main_aggregate \/ main_flush

\* ------------------------------------------------------- specifications
InitCommon ==
    /\ summary_map = EmptyDict
    /\ live_status = EmptyDict
    /\ ret = NoRet
    /\ raw_blocks = <<>>
    /\ r = NoResult
    /\ cmd = ""
    /\ usb = NoResult
    /\ li = 1
    /\ scan = <<>>
    /\ files = EmptyDict
    /\ lines = <<>>
    /\ psutil \in {"present", "absent"}
    /\ calls = <<>>
    /\ rets = EmptyDict
    /\ events = <<>>

\* one run of the program: main() on a host whose commands all behave as usual;
\* artifact writes, timings and the optional tools vary
Init ==
    /\ InitCommon
    /\ pc = "main_init"
    /\ mi = 0
    /\ summary = EmptyDict
    /\ oddLeft = 0

Next == Main \/ Collect

Spec == Init /\ [][Next]_vars

\* one collector called on its own, on a host where up to MaxOdd commands
\* deviate from their usual outcome
InitCollect ==
    /\ InitCommon
    /\ \E i \in 1..Len(modules) : mi = i /\ pc = Entry(modules[i])
    /\ summary = Seed
    /\ oddLeft = MaxOdd

SpecCollect == InitCollect /\ [][Collect]_vars

\* ================================================================ claims
Domain == modules[mi]
Collected == pc = "collected"
IsWriteError(rt) == rt.kind = "raise" /\ Head(rt.error) = "Permission denied"
HasCall(label) == \E i \in 1..Len(calls) : calls[i].label = label
CallOf(label) == calls[CHOOSE i \in 1..Len(calls) : calls[i].label = label]

\* C1: whatever the commands of a collector do (exit code, timeout, failure to
\* start, any output text, blank lines included), the collector completes and
\* returns a summary; no command outcome makes it raise.  (A raise caused by a
\* failed artifact write is the subject of C6 and is set aside here.)
C1_NoCommandOutcomeAbortsCollect ==
    (Collected /\ ret.kind = "raise") => IsWriteError(ret)

Entry_of(rt) == IF rt.kind = "return" THEN rt.value ELSE [error |-> rt.error]

HasEveryDomain(agg) ==
    \A d \in Domains : /\ d \in DOMAIN rets
                       /\ d \in DOMAIN agg
                       /\ agg[d] = Entry_of(rets[d])

\* C2: the aggregate, in memory at the end of the loop and as persisted, has an
\* entry for every one of the five domains: the summary its collector returned,
\* or {error: message} when the collector raised.
C2_AggregateHasEveryDomain ==
    /\ pc \in {"main_flush", "done", "aborted"} => HasEveryDomain(summary_map)
    /\ AggregatePath \in DOMAIN files => HasEveryDomain(files[AggregatePath])

\* two collectors raised, two returned, and the aggregate was persisted
C2_Witness ==
    /\ AggregatePath \in DOMAIN files
    /\ rets["system"].kind = "raise"
    /\ rets["hardware"].kind = "return"
    /\ rets["storage"].kind = "raise"
    /\ rets["peripherals"].kind = "return"
    /\ "error" \in DOMAIN files[AggregatePath]["storage"]

RecordedElapsed(agg, d) ==
    IF rets[d].kind = "return" THEN agg[d]["elapsed_seconds"] ELSE 0

TotalIsSum(agg) ==
    agg["total_elapsed_seconds"] =
        RecordedElapsed(agg, "system") + RecordedElapsed(agg, "hardware")
        + RecordedElapsed(agg, "firmware") + RecordedElapsed(agg, "storage")
        + RecordedElapsed(agg, "peripherals")

\* C3: the persisted total_elapsed_seconds is the sum of the elapsed_seconds of
\* the five domains' entries, a domain that raised counting zero.
C3_TotalElapsedIsSum ==
    /\ pc \in {"main_flush", "done", "aborted"} => TotalIsSum(summary_map)
    /\ AggregatePath \in DOMAIN files => TotalIsSum(files[AggregatePath])

\* three collectors returned with different timings, two raised, and the
\* persisted total is the sum of the three
C3_Witness ==
    /\ AggregatePath \in DOMAIN files
    /\ rets["peripherals"].kind = "raise"
    /\ rets["firmware"].kind = "raise"
    /\ rets["system"].kind = "return" /\ rets["system"].value["elapsed_seconds"] = 1
    /\ rets["hardware"].kind = "return" /\ rets["hardware"].value["elapsed_seconds"] = MaxElapsed
    /\ rets["storage"].kind = "return"
    /\ files[AggregatePath]["total_elapsed_seconds"]
         = 1 + MaxElapsed + rets["storage"].value["elapsed_seconds"]

\* C4: every named firmware field that the BIOS attribute dump sets is in the
\* firmware summary with the dump's trimmed value, whatever the later commands
\* output.
C4_FirmwareFieldsFromBiosDump ==
    (Collected /\ Domain = "firmware" /\ ret.kind = "return") =>
        LET bios == parse_wmic(CallOf(<<"wmic bios">>).out)
        IN  \A k \in FirmwareFields :
                <<k>> \in DOMAIN bios =>
                    k \in DOMAIN ret.value /\ ret.value[k] = bios[<<k>>]

\* C5: each length or count field of a summary is computed from the output of
\* the command it is named for.
C5_FieldsFromOwnCommand ==
    /\ (Collected /\ Domain = "peripherals" /\ ret.kind = "return") =>
          /\ ret.value["usb_entries_length"] = Len(CallOf(<<"USB">>).out)
          /\ ret.value["pnp_entries_length"] = Len(CallOf(<<"get_pnp_device">>).out)
          /\ ret.value["netadapter_entries_length"] = Len(CallOf(<<"get_netadapter">>).out)
    /\ (Collected /\ Domain = "system" /\ ret.kind = "return") =>
          /\ ret.value["drivers_count"] = Count(CallOf(<<"driverquery">>).out, <<"Driver Name">>)
          /\ ret.value["services_length"] = Len(CallOf(<<"wmic_service">>).out)

\* C6: a failed artifact write does not hard-fail the run: a domain whose
\* commands and parsing succeeded keeps its summary in the aggregate, the run
\* is never aborted, and a run that has ended has flushed its log.
C6_WriteFailureDoesNotFailRun ==
    /\ \A d \in DOMAIN rets : "error" \notin DOMAIN summary_map[d]
    /\ pc # "aborted"
    /\ pc = "done" => \E i \in 1..Len(events) : events[i] \in {"flush", "flush failed"}

FullRun(f) == modules \o <<"aggregate", f>>
IsPrefix(s, t) == Len(s) <= Len(t) /\ SubSeq(t, 1, Len(s)) = s

\* C7: the collectors are called one after another in the fixed order, each at
\* most once; the aggregate is written after all five, the log is flushed after
\* the aggregate write, and a run that has ended has done each exactly once.
C7_FixedOrderAndOneAggregateOneFlush ==
    /\ \E f \in {"flush", "flush failed"} : IsPrefix(events, FullRun(f))
    /\ pc \in {"done", "aborted"} => Len(events) = Len(modules) + 2

\* C8: a result with rc = -1 comes from a timeout or a runner exception and has
\* a non-empty err, which on timeout starts with TIMEOUT; a command that
\* completed never gives rc = -1 with an empty err.
C8_MinusOneIsRunnerFailure ==
    \A i \in 1..Len(calls) :
        calls[i].rc = -1 =>
            /\ calls[i].kind \in {"timeout", "exception"}
            /\ calls[i].err # <<>>
            /\ calls[i].kind = "timeout" => Head(calls[i].err) = "TIMEOUT"

MarkerLabels == {<<"psutil not available">>, <<"smartctl not found">>}
IsHeader(line) == Len(line) >= 2 /\ line[1] = "###" /\ line[2] = SP
LabelOf(line) == SubSeq(line, 3, Len(line))
BlockLabel(block) == LabelOf(SubSeq(block, 1, FirstAt(block, LF) - 1))
IsCommandBlock(block) == BlockLabel(block) \notin MarkerLabels

\* the command blocks are the run() calls, in order, each with its out and err
C9_OneBlockPerCommand ==
    LET cb == SelectSeq(raw_blocks, IsCommandBlock)
    IN  /\ Len(cb) = Len(calls)
        /\ \A i \in 1..Len(calls) :
              /\ BlockLabel(cb[i]) = calls[i].label
              /\ calls[i].label # <<"dxdiag">> =>
                    cb[i] = <<"###", SP>> \o calls[i].label \o <<LF>> \o calls[i].out
                            \o <<LF, "ERR:", LF>> \o calls[i].err

\* raw.txt, once written: one header per block, in order, each followed by a
\* "----" line before the next header
C9_RawTxtHoldsBlocksInOrder ==
    RawPath(Domain) \in DOMAIN files =>
        LET ls == splitlines(files[RawPath(Domain)])
            hs == SelectSeq(ls, IsHeader)
            at == {i \in 1..Len(ls) : IsHeader(ls[i])}
        IN  /\ Len(hs) = Len(raw_blocks)
            /\ \A i \in 1..Len(hs) : LabelOf(hs[i]) = BlockLabel(raw_blocks[i])
            /\ \A i \in at : \E j \in (i + 1)..Len(ls) :
                    /\ ls[j] = <<"----">>
                    /\ \A k \in (i + 1)..j : k \notin at

C10_ProcessSampleFromHeader ==
    (Domain = "system" /\ HasCall(<<"tasklist">>)) =>
        LET text == CallOf(<<"tasklist">>).out
            rows == csv_rows(text)
            ne == {i \in 1..Len(rows) : rows[i] # <<>>}
        IN  IF CsvError(text) THEN "process_sample_parse_error" \in DOMAIN summary
            ELSE ne # {} =>
                   LET h == CHOOSE i \in ne : \A j \in ne : i <= j
                       n == Len(rows) - h
                       ps == summary["process_sample"]
                   IN  /\ Len(ps) = Min(n, 40)
                       /\ \A i \in 1..Len(ps) : ps[i] = dict_zip(rows[h], rows[h + i])

====
